---------------------------- MODULE Spec2Model ----------------------------
(***************************************************************************)
(* A model of precise_patterns' two core primitives:                       *)
(*   - DoublyLinkedList (precise_patterns/doubly_linked_list.py)           *)
(*   - BasePattern / Registry (precise_patterns/base/pattern.py)           *)
(*                                                                         *)
(* Node objects live in a heap indexed by node identity 1, 2, 3, ...; the  *)
(* sequences value, prev and next hold the three slots of every Node ever  *)
(* constructed.  Null (0) stands for Python's None.  Every list operation  *)
(* is an operator from a list state to a result record, translated line by *)
(* line from the method, and an action that commits that result.           *)
(***************************************************************************)
EXTENDS Integers, Sequences, FiniteSets, TLC

\* ------------------------------------------------------------------ bounds
\* Node objects constructed in one behaviour.
MaxNodes == 3
\* Values stored in nodes are 0 .. MaxValue.
MaxValue == 2

\* Class statements (declarations of variants) executed in one behaviour.
MaxDecls == 3
\* Constructor configurations are 1 .. MaxConfig.
MaxConfig == 2

Null == 0
Values == 0 .. MaxValue
NoValue == -1

\* ------------------------------------------------------------------- state
VARIABLES
    head,       \* DoublyLinkedList._head : node identity or Null
    tail,       \* DoublyLinkedList._tail : node identity or Null
    size,       \* DoublyLinkedList._size
    value,      \* Node.value of every node constructed so far
    prev,       \* Node.prev  of every node constructed so far
    next,       \* Node.next  of every node constructed so far
    lastOp,     \* the last list call: its name, arguments, result and error
    _register,  \* Registry._register : name -> class
    _instances, \* Registry._instances : name -> instance
    ndecl,      \* class objects the class statements have tried to create
    ninst,      \* instances constructed so far
    view,       \* what the caller holds from its last all() call
    lastCall,   \* the last registry call: name, arguments, result and error
    it,         \* the frame of the generator __iter__ / __reversed__ returned
    th          \* per thread: the frame of its call of Registry.create

listVars == <<head, tail, size, value, prev, next, lastOp>>
registryVars == <<_register, _instances, ndecl, ninst, view, lastCall>>
vars == <<head, tail, size, value, prev, next, lastOp,
          _register, _instances, ndecl, ninst, view, lastCall, it, th>>

\* The list object together with the node heap, as one record.
Cur ==
    [head |-> head, tail |-> tail, size |-> size,
     value |-> value, prev |-> prev, next |-> next]

\* DoublyLinkedList.__init__: an empty list; no node exists yet.
EmptyList ==
    [head |-> Null, tail |-> Null, size |-> 0,
     value |-> <<>>, prev |-> <<>>, next |-> <<>>]

\* Node.__init__(value, prev, next): a new node object on the heap.
NewNode(L, v, p, n) ==
    [L EXCEPT !.value = Append(L.value, v),
              !.prev = Append(L.prev, p),
              !.next = Append(L.next, n)]

\* ------------------------------------------------------------- traversals
RECURSIVE Walk(_, _, _)
\* The nodes visited by `current = start; while current: ...; current =
\* link[current]`.  fuel stops a walk that a cyclic chain would never end.
Walk(cur, link, fuel) ==
    IF cur = Null \/ fuel = 0 THEN <<>>
    ELSE <<cur>> \o Walk(link[cur], link, fuel - 1)

Fuel(L) == Len(L.value) + 1

\* __iter__: the nodes, then the values, yielded from _head along next.
NodesFwd(L) == Walk(L.head, L.next, Fuel(L))
IterFwd(L) == [i \in 1 .. Len(NodesFwd(L)) |-> L.value[NodesFwd(L)[i]]]

\* __reversed__: the nodes, then the values, yielded from _tail along prev.
NodesBwd(L) == Walk(L.tail, L.prev, Fuel(L))
IterBwd(L) == [i \in 1 .. Len(NodesBwd(L)) |-> L.value[NodesBwd(L)[i]]]

\* __len__
LenOf(L) == L.size

Reverse(s) == [i \in 1 .. Len(s) |-> s[Len(s) + 1 - i]]
Range(s) == {s[i] : i \in 1 .. Len(s)}

\* The nodes currently in the list.
Members(L) == Range(NodesFwd(L))

\* -------------------------------------------------------------- operations
Result(L, ret, err) == [L |-> L, ret |-> ret, err |-> err]

\* append(value)
append(L, v) ==
    LET node == Len(L.value) + 1
        L1 == NewNode(L, v, L.tail, Null)
        L2 == IF L.tail # Null
              THEN [L1 EXCEPT !.next[L.tail] = node]
              ELSE [L1 EXCEPT !.head = node]
        L3 == [L2 EXCEPT !.tail = node, !.size = L.size + 1]
    IN Result(L3, node, "none")

\* appendleft(value)
appendleft(L, v) ==
    LET node == Len(L.value) + 1
        L1 == NewNode(L, v, Null, L.head)
        L2 == IF L.head # Null
              THEN [L1 EXCEPT !.prev[L.head] = node]
              ELSE [L1 EXCEPT !.tail = node]
        L3 == [L2 EXCEPT !.head = node, !.size = L.size + 1]
    IN Result(L3, node, "none")

\* remove_node() without the two statements that detach the node's own links.
remove_node_KeepsOwnLinks(L, node) ==
    LET L1 == IF L.prev[node] # Null
              THEN [L EXCEPT !.next[L.prev[node]] = L.next[node]]
              ELSE [L EXCEPT !.head = L.next[node]]
        L2 == IF L1.next[node] # Null
              THEN [L1 EXCEPT !.prev[L1.next[node]] = L1.prev[node]]
              ELSE [L1 EXCEPT !.tail = L1.prev[node]]
        L5 == [L2 EXCEPT !.size = L2.size - 1]
    IN Result(L5, NoValue, "none")

\* remove_node() that returns at once for a node that is linked to nothing
\* and is not the head.
remove_node_ChecksMembership(L, node) ==
    IF L.prev[node] = Null /\ L.next[node] = Null /\ L.head # node
    THEN Result(L, NoValue, "none")
    ELSE LET L1 == IF L.prev[node] # Null
                   THEN [L EXCEPT !.next[L.prev[node]] = L.next[node]]
                   ELSE [L EXCEPT !.head = L.next[node]]
             L2 == IF L1.next[node] # Null
                   THEN [L1 EXCEPT !.prev[L1.next[node]] = L1.prev[node]]
                   ELSE [L1 EXCEPT !.tail = L1.prev[node]]
             L3 == [L2 EXCEPT !.prev[node] = Null]
             L4 == [L3 EXCEPT !.next[node] = Null]
             L5 == [L4 EXCEPT !.size = L4.size - 1]
         IN Result(L5, NoValue, "none")

\* remove_node() without the else branch that moves _tail.
remove_node_KeepsTail(L, node) ==
    LET L1 == IF L.prev[node] # Null
              THEN [L EXCEPT !.next[L.prev[node]] = L.next[node]]
              ELSE [L EXCEPT !.head = L.next[node]]
        L2 == IF L1.next[node] # Null
              THEN [L1 EXCEPT !.prev[L1.next[node]] = L1.prev[node]]
              ELSE L1
        L3 == [L2 EXCEPT !.prev[node] = Null]
        L4 == [L3 EXCEPT !.next[node] = Null]
        L5 == [L4 EXCEPT !.size = L4.size - 1]
    IN Result(L5, NoValue, "none")

\* remove_node(node): the statements in program order; each reads the
\* state the statements before it left.
remove_node(L, node) ==
    LET L1 == IF L.prev[node] # Null
              THEN [L EXCEPT !.next[L.prev[node]] = L.next[node]]
              ELSE [L EXCEPT !.head = L.next[node]]
        L2 == IF L1.next[node] # Null
              THEN [L1 EXCEPT !.prev[L1.next[node]] = L1.prev[node]]
              ELSE [L1 EXCEPT !.tail = L1.prev[node]]
        L3 == [L2 EXCEPT !.prev[node] = Null]
        L4 == [L3 EXCEPT !.next[node] = Null]
        L5 == [L4 EXCEPT !.size = L4.size - 1]
    IN Result(L5, NoValue, "none")

\* pop() that unlinks the head instead of the tail.
pop_RemovesHead(L) ==
    IF L.tail = Null
    THEN Result(L, NoValue, "IndexError")
    ELSE Result(remove_node(L, L.head).L, L.value[L.tail], "none")

\* pop()
pop(L) ==
    IF L.tail = Null
    THEN Result(L, NoValue, "IndexError")
    ELSE Result(remove_node(L, L.tail).L, L.value[L.tail], "none")

\* popleft() that counts the element down before it looks at _head.
popleft_CountsFirst(L) ==
    IF L.head = Null
    THEN Result([L EXCEPT !.size = L.size - 1], NoValue, "IndexError")
    ELSE Result(remove_node(L, L.head).L, L.value[L.head], "none")

\* popleft()
popleft(L) ==
    IF L.head = Null
    THEN Result(L, NoValue, "IndexError")
    ELSE Result(remove_node(L, L.head).L, L.value[L.head], "none")

\* insert_after() without the else branch that moves _tail.
insert_after_KeepsTail(L, node, v) ==
    LET new_node == Len(L.value) + 1
        L1 == NewNode(L, v, node, L.next[node])
        L2 == IF L1.next[node] # Null
              THEN [L1 EXCEPT !.prev[L1.next[node]] = new_node]
              ELSE L1
        L3 == [L2 EXCEPT !.next[node] = new_node]
        L4 == [L3 EXCEPT !.size = L3.size + 1]
    IN Result(L4, new_node, "none")

\* insert_after(node, value)
insert_after(L, node, v) ==
    LET new_node == Len(L.value) + 1
        L1 == NewNode(L, v, node, L.next[node])
        L2 == IF L1.next[node] # Null
              THEN [L1 EXCEPT !.prev[L1.next[node]] = new_node]
              ELSE [L1 EXCEPT !.tail = new_node]
        L3 == [L2 EXCEPT !.next[node] = new_node]
        L4 == [L3 EXCEPT !.size = L3.size + 1]
    IN Result(L4, new_node, "none")

\* insert_before() without the statement `node.prev = new_node`.
insert_before_NoBackLink(L, node, v) ==
    LET new_node == Len(L.value) + 1
        L1 == NewNode(L, v, L.prev[node], node)
        L2 == IF L1.prev[node] # Null
              THEN [L1 EXCEPT !.next[L1.prev[node]] = new_node]
              ELSE [L1 EXCEPT !.head = new_node]
        L4 == [L2 EXCEPT !.size = L2.size + 1]
    IN Result(L4, new_node, "none")

\* insert_before(node, value)
insert_before(L, node, v) ==
    LET new_node == Len(L.value) + 1
        L1 == NewNode(L, v, L.prev[node], node)
        L2 == IF L1.prev[node] # Null
              THEN [L1 EXCEPT !.next[L1.prev[node]] = new_node]
              ELSE [L1 EXCEPT !.head = new_node]
        L3 == [L2 EXCEPT !.prev[node] = new_node]
        L4 == [L3 EXCEPT !.size = L3.size + 1]
    IN Result(L4, new_node, "none")

\* clear() that resets _head and _size and forgets _tail.
clear_KeepsTail(L) ==
    Result([L EXCEPT !.head = Null, !.size = 0], NoValue, "none")

\* clear() that resets _head and _tail and forgets _size.
clear_KeepsSize(L) ==
    Result([L EXCEPT !.head = Null, !.tail = Null], NoValue, "none")

\* clear()
clear(L) ==
    Result([L EXCEPT !.head = Null, !.tail = Null, !.size = 0], NoValue, "none")

\* ----------------------------------------------------------------- actions
\* A call returns (or raises): the list and the heap take the state the
\* method left, and the call is recorded.
Commit(r, op, v, n) ==
    /\ head' = r.L.head
    /\ tail' = r.L.tail
    /\ size' = r.L.size
    /\ value' = r.L.value
    /\ prev' = r.L.prev
    /\ next' = r.L.next
    /\ lastOp' = [op |-> op, val |-> v, node |-> n, ret |-> r.ret, err |-> r.err]
    /\ UNCHANGED <<registryVars, it, th>>

CanAllocate == Len(value) < MaxNodes

CallAppend(v) == CanAllocate /\ Commit(append(Cur, v), "append", v, Null)

CallAppendLeft(v) == CanAllocate /\ Commit(appendleft(Cur, v), "appendleft", v, Null)

CallPop == Commit(pop(Cur), "pop", NoValue, Null)

CallPopLeft == Commit(popleft(Cur), "popleft", NoValue, Null)

CallInsertAfter(n, v) ==
    CanAllocate /\ Commit(insert_after(Cur, n, v), "insert_after", v, n)

CallInsertBefore(n, v) ==
    CanAllocate /\ Commit(insert_before(Cur, n, v), "insert_before", v, n)

CallRemoveNode(n) == Commit(remove_node(Cur, n), "remove_node", NoValue, n)

CallClear == Commit(clear(Cur), "clear", NoValue, Null)

InitList ==
    /\ head = EmptyList.head
    /\ tail = EmptyList.tail
    /\ size = EmptyList.size
    /\ value = EmptyList.value
    /\ prev = EmptyList.prev
    /\ next = EmptyList.next
    /\ lastOp = [op |-> "init", val |-> NoValue, node |-> Null,
                 ret |-> NoValue, err |-> "none"]

\* ------------------------------------------------------ lazy traversals
\* No generator exists.
NoGenerator ==
    [pc |-> "none", dir |-> "none", current |-> Null,
     size0 |-> 0, size1 |-> 0, count |-> 0]

\* iter(lst) / reversed(lst): a generator whose body has not run yet.
\* size0 keeps the size at this call, count the values yielded so far.
NewGenerator(L, dir) ==
    [pc |-> "created", dir |-> dir, current |-> Null,
     size0 |-> L.size, size1 |-> 0, count |-> 0]

\* next(gen): the body runs to its next yield, or to its end.  The first
\* call reads _head (_tail); a later one resumes after the yield with
\* `current = current.next` (`current.prev`).  size1 keeps the size at the
\* first call.
gen_next(L, g) ==
    LET cur == IF g.pc = "created"
               THEN (IF g.dir = "fwd" THEN L.head ELSE L.tail)
               ELSE (IF g.dir = "fwd" THEN L.next[g.current]
                                      ELSE L.prev[g.current])
        s1 == IF g.pc = "created" THEN L.size ELSE g.size1
    IN IF cur # Null
       THEN [g |-> [g EXCEPT !.pc = "suspended", !.current = cur,
                             !.size1 = s1, !.count = g.count + 1],
             node |-> cur, ret |-> L.value[cur], err |-> "none"]
       ELSE [g |-> [g EXCEPT !.pc = "done", !.current = Null, !.size1 = s1],
             node |-> Null, ret |-> NoValue, err |-> "StopIteration"]

CallIter(dir) ==
    /\ it' = NewGenerator(Cur, dir)
    /\ lastOp' = [op |-> dir, val |-> NoValue, node |-> Null,
                  ret |-> NoValue, err |-> "none"]
    /\ UNCHANGED <<head, tail, size, value, prev, next, registryVars, th>>

CallNext ==
    /\ it.pc \in {"created", "suspended"}
    /\ LET r == gen_next(Cur, it)
       IN /\ it' = r.g
          /\ lastOp' = [op |-> "next", val |-> NoValue, node |-> r.node,
                        ret |-> r.ret, err |-> r.err]
    /\ UNCHANGED <<head, tail, size, value, prev, next, registryVars, th>>

\* The list driven by a caller that keeps the precondition of the node
\* operations: every node argument is a node currently in the list.
NextList ==
    \/ \E v \in Values : CallAppend(v)
    \/ \E v \in Values : CallAppendLeft(v)
    \/ CallPop
    \/ CallPopLeft
    \/ \E n \in Members(Cur), v \in Values : CallInsertAfter(n, v)
    \/ \E n \in Members(Cur), v \in Values : CallInsertBefore(n, v)
    \/ \E n \in Members(Cur) : CallRemoveNode(n)
    \/ CallClear

\* The list with a caller that traverses it lazily and mutates it between two
\* steps of the traversal.
NextIter ==
    \/ NextList
    \/ \E dir \in {"fwd", "bwd"} : CallIter(dir)
    \/ CallNext

\* remove_node(n) called again with a handle the caller kept: n is no longer
\* in the list and both its links are None.  size bounds the calls.
Detached(n) ==
    /\ n \in 1 .. Len(value)
    /\ n \notin Members(Cur)
    /\ prev[n] = Null
    /\ next[n] = Null

CallRemoveDetached(n) ==
    /\ Detached(n)
    /\ size >= 1
    /\ Commit(remove_node(Cur, n), "remove_node", NoValue, n)

\* The list driven by a caller that also passes remove_node a node that was
\* removed before.
NextStale ==
    \/ NextList
    \/ \E n \in 1 .. Len(value) : CallRemoveDetached(n)

\* ------------------------------------------------------ list properties
IndexOf(s, x) == CHOOSE i \in 1 .. Len(s) : s[i] = x
InsertAt(s, i, x) == SubSeq(s, 1, i - 1) \o <<x>> \o SubSeq(s, i, Len(s))
Front(s) == SubSeq(s, 1, Len(s) - 1)

\* C1: after any sequence of the seven mutators on member nodes, the forward
\* traversal is the exact reverse of the backward traversal, and len() is
\* the number of values either traversal yields.
C1_TraversalsMirror ==
    /\ IterFwd(Cur) = Reverse(IterBwd(Cur))
    /\ LenOf(Cur) = Len(IterFwd(Cur))
    /\ LenOf(Cur) = Len(IterBwd(Cur))

\* A node has been removed and another inserted before a member since.
C1_Witness ==
    /\ lastOp.op = "insert_before"
    /\ Len(value) = 3
    /\ size = 2
    /\ IterFwd(Cur) = Reverse(IterBwd(Cur))

\* C2: append(v) puts v at the end and returns the new tail; appendleft(v)
\* puts v at the front and returns the new head; pop() / popleft() on a
\* non-empty list remove and return the last / first value; the other values
\* keep their order and len() changes by exactly one.
C2_EndsRefineSequence ==
    [][/\ lastOp'.op = "append" =>
            /\ lastOp'.err = "none"
            /\ IterFwd(Cur)' = Append(IterFwd(Cur), lastOp'.val)
            /\ NodesFwd(Cur)' = Append(NodesFwd(Cur), lastOp'.ret)
            /\ lastOp'.ret = tail'
            /\ LenOf(Cur)' = LenOf(Cur) + 1
       /\ lastOp'.op = "appendleft" =>
            /\ lastOp'.err = "none"
            /\ IterFwd(Cur)' = <<lastOp'.val>> \o IterFwd(Cur)
            /\ NodesFwd(Cur)' = <<lastOp'.ret>> \o NodesFwd(Cur)
            /\ lastOp'.ret = head'
            /\ LenOf(Cur)' = LenOf(Cur) + 1
       /\ (lastOp'.op = "pop" /\ LenOf(Cur) > 0) =>
            /\ lastOp'.err = "none"
            /\ lastOp'.ret = IterFwd(Cur)[Len(IterFwd(Cur))]
            /\ IterFwd(Cur)' = Front(IterFwd(Cur))
            /\ NodesFwd(Cur)' = Front(NodesFwd(Cur))
            /\ LenOf(Cur)' = LenOf(Cur) - 1
       /\ (lastOp'.op = "popleft" /\ LenOf(Cur) > 0) =>
            /\ lastOp'.err = "none"
            /\ lastOp'.ret = Head(IterFwd(Cur))
            /\ IterFwd(Cur)' = Tail(IterFwd(Cur))
            /\ NodesFwd(Cur)' = Tail(NodesFwd(Cur))
            /\ LenOf(Cur)' = LenOf(Cur) - 1
      ]_vars

\* append(1); append(2); appendleft(0); pop() returned 2 and popleft() has
\* just returned 0, leaving [1].
C2_Witness ==
    /\ value = <<1, 2, 0>>
    /\ lastOp.op = "popleft"
    /\ lastOp.ret = 0
    /\ IterFwd(Cur) = <<1>>
    /\ size = 1

\* The state a call leaves is the state it found.
ListUntouched ==
    UNCHANGED <<head, tail, size, value, prev, next>>

\* From list state L, append(v) then pop() returns v and leaves L empty.
AppendThenPop(L) ==
    \A v \in Values :
        LET a == append(L, v)
            p == pop(a.L)
        IN /\ IterFwd(a.L) = <<v>>
           /\ p.err = "none"
           /\ p.ret = v
           /\ LenOf(p.L) = 0
           /\ p.L.head = Null
           /\ p.L.tail = Null
           /\ IterFwd(p.L) = <<>>
           /\ IterBwd(p.L) = <<>>

\* C3: pop() and popleft() on an empty list fail with IndexError and leave
\* head, tail and size unchanged, so that append(v) then pop() returns v and
\* the list is empty again.
C3_EmptyPopFailsCleanly ==
    [][(lastOp'.op \in {"pop", "popleft"} /\ LenOf(Cur) = 0) =>
            /\ lastOp'.err = "IndexError"
            /\ ListUntouched
            /\ AppendThenPop(Cur')
      ]_vars

\* popleft() has just failed on a list that was used and emptied before.
C3_Witness ==
    /\ lastOp.op = "popleft"
    /\ lastOp.err = "IndexError"
    /\ Len(value) >= 2
    /\ size = 0

\* C10: insert_after(n, v) makes v the immediate successor of n and
\* insert_before(n, v) the immediate predecessor; the other values keep their
\* order, len() grows by one, tail (head) becomes the new node exactly when n
\* was the tail (head), and the new node is returned.
C10_InsertAdjacent ==
    [][/\ lastOp'.op = "insert_after" =>
            LET n == lastOp'.node
                i == IndexOf(NodesFwd(Cur), n)
            IN /\ lastOp'.err = "none"
               /\ lastOp'.ret \notin Members(Cur)
               /\ value'[lastOp'.ret] = lastOp'.val
               /\ NodesFwd(Cur)' = InsertAt(NodesFwd(Cur), i + 1, lastOp'.ret)
               /\ IterFwd(Cur)' = InsertAt(IterFwd(Cur), i + 1, lastOp'.val)
               /\ NodesBwd(Cur)' = Reverse(NodesFwd(Cur)')
               /\ LenOf(Cur)' = LenOf(Cur) + 1
               /\ tail' = (IF n = tail THEN lastOp'.ret ELSE tail)
               /\ head' = head
       /\ lastOp'.op = "insert_before" =>
            LET n == lastOp'.node
                i == IndexOf(NodesFwd(Cur), n)
            IN /\ lastOp'.err = "none"
               /\ lastOp'.ret \notin Members(Cur)
               /\ value'[lastOp'.ret] = lastOp'.val
               /\ NodesFwd(Cur)' = InsertAt(NodesFwd(Cur), i, lastOp'.ret)
               /\ IterFwd(Cur)' = InsertAt(IterFwd(Cur), i, lastOp'.val)
               /\ NodesBwd(Cur)' = Reverse(NodesFwd(Cur)')
               /\ LenOf(Cur)' = LenOf(Cur) + 1
               /\ head' = (IF n = head THEN lastOp'.ret ELSE head)
               /\ tail' = tail
      ]_vars

\* insert_after() has just put a node between two others.
C10_Witness ==
    /\ lastOp.op = "insert_after"
    /\ size = 3
    /\ lastOp.ret # tail
    /\ next[lastOp.node] = lastOp.ret
    /\ prev[tail] = lastOp.ret

RemoveAt(s, i) == SubSeq(s, 1, i - 1) \o SubSeq(s, i + 1, Len(s))

\* C11: remove_node(n) on a member n removes exactly n: its former
\* predecessor and successor become adjacent (head moves to n's successor if
\* n was the head, tail to n's predecessor if n was the tail), len() drops by
\* one, the other values keep their order, and n.prev and n.next are absent.
C11_RemoveExactlyNode ==
    [][(lastOp'.op = "remove_node" /\ lastOp'.node \in Members(Cur)) =>
            LET n == lastOp'.node
                i == IndexOf(NodesFwd(Cur), n)
            IN /\ lastOp'.err = "none"
               /\ NodesFwd(Cur)' = RemoveAt(NodesFwd(Cur), i)
               /\ IterFwd(Cur)' = RemoveAt(IterFwd(Cur), i)
               /\ NodesBwd(Cur)' = Reverse(NodesFwd(Cur)')
               /\ LenOf(Cur)' = LenOf(Cur) - 1
               /\ head' = (IF n = head THEN next[n] ELSE head)
               /\ tail' = (IF n = tail THEN prev[n] ELSE tail)
               /\ prev[n] # Null => next'[prev[n]] = next[n]
               /\ next[n] # Null => prev'[next[n]] = prev[n]
               /\ prev'[n] = Null
               /\ next'[n] = Null
      ]_vars

\* remove_node() has just taken the middle node out of three.
C11_Witness ==
    /\ lastOp.op = "remove_node"
    /\ size = 2
    /\ Len(value) = 3
    /\ lastOp.node \notin {head, tail}
    /\ next[head] = tail
    /\ prev[tail] = head

\* From list state L, append(v) gives the traversal [v] in both directions.
AppendGivesSingleton(L) ==
    \A v \in Values :
        LET a == append(L, v)
        IN /\ IterFwd(a.L) = <<v>>
           /\ IterBwd(a.L) = <<v>>
           /\ LenOf(a.L) = 1

\* C12: clear() on a list of any size yields len() = 0, head and tail
\* absent and empty forward and backward traversals, and the list remains
\* usable: a following append(v) gives the traversal [v].
C12_ClearEmpties ==
    [][lastOp'.op = "clear" =>
            /\ lastOp'.err = "none"
            /\ LenOf(Cur)' = 0
            /\ head' = Null
            /\ tail' = Null
            /\ IterFwd(Cur)' = <<>>
            /\ IterBwd(Cur)' = <<>>
            /\ AppendGivesSingleton(Cur')
      ]_vars

\* clear() has just emptied a list of two nodes, whose links it left.
C12_Witness ==
    /\ lastOp.op = "clear"
    /\ size = 0
    /\ Len(value) = 2
    /\ next[1] = 2

\* C13: in every reachable state and for every member n, insert_after(n, v)
\* followed by remove_node on the node it returned restores the prior state:
\* the same traversals (values and nodes), len(), head and tail, and the same
\* links of every node that existed before.
C13_InsertThenRemoveRestores ==
    \A n \in Members(Cur), v \in Values :
        LET a == insert_after(Cur, n, v)
            r == remove_node(a.L, a.ret).L
        IN /\ IterFwd(r) = IterFwd(Cur)
           /\ IterBwd(r) = IterBwd(Cur)
           /\ NodesFwd(r) = NodesFwd(Cur)
           /\ LenOf(r) = LenOf(Cur)
           /\ r.head = head
           /\ r.tail = tail
           /\ \A m \in 1 .. Len(value) :
                  r.prev[m] = prev[m] /\ r.next[m] = next[m]

\* The node that was allocated last has just been removed again, from a
\* list that keeps two others.
C13_Witness ==
    /\ lastOp.op = "remove_node"
    /\ lastOp.node = 3
    /\ Len(value) = 3
    /\ size = 2
    /\ IterFwd(Cur) = <<0, 1>>
    /\ value[3] = 2

\* C15: in every reachable state size = 0 iff head is absent iff tail is
\* absent, and size is never negative.
C15_EmptyIffNoEnds ==
    /\ (size = 0) <=> (head = Null)
    /\ (head = Null) <=> (tail = Null)
    /\ size >= 0

\* clear() has just emptied a list that pop() could not have emptied in one
\* call.
C15_Witness ==
    /\ lastOp.op = "clear"
    /\ Len(value) = 3
    /\ head = Null
    /\ tail = Null
    /\ size = 0
    /\ next[1] # Null

\* C20: remove_node checks no membership and always decrements size by one:
\* called on a node that is out of the list with prev and next absent, while
\* size is k >= 1, it sets head and tail to absent and size to k - 1, so that
\* for k >= 2 the list has size > 0 and an empty traversal.
C20_RemoveTwiceCorrupts ==
    [][lastOp'.op = "remove_node" =>
            /\ lastOp'.err = "none"
            /\ size' = size - 1
            /\ (Detached(lastOp'.node) /\ size >= 1) =>
                   /\ head' = Null
                   /\ tail' = Null
                   /\ IterFwd(Cur)' = <<>>
                   /\ IterBwd(Cur)' = <<>>
                   /\ size >= 2 => (size' > 0 /\ Len(IterFwd(Cur)') # LenOf(Cur)')
      ]_vars

\* Of three nodes one was removed twice: size is 1, the traversal is empty
\* and the two nodes that were left still point at each other.
C20_Witness ==
    /\ lastOp.op = "remove_node"
    /\ size = 1
    /\ head = Null
    /\ tail = Null
    /\ IterFwd(Cur) = <<>>
    /\ Len(value) = 3
    /\ prev[lastOp.node] = Null
    /\ next[lastOp.node] = Null
    /\ \E a, b \in 1 .. Len(value) : a # b /\ next[a] = b /\ prev[b] = a

\* A step of a traversal changes nothing of the list.
TraversalIsPure ==
    [][lastOp'.op \in {"fwd", "bwd", "next"} => ListUntouched]_vars

\* C14: a forward or backward traversal yields at most as many values as the
\* size of the list when the traversal was started (when the generator was
\* made, or when its body began to run), and never changes head, tail, size
\* or a link, also when its steps are interleaved with mutating operations.
C14_TraversalBoundedBySize ==
    [][/\ lastOp'.op \in {"fwd", "bwd", "next"} => ListUntouched
       /\ it'.count <= it'.size0 \/ it'.count <= it'.size1
      ]_vars

\* C18: every value a traversal yields belongs to a node that is a member of
\* the list at the moment it is yielded, also when remove_node, pop, popleft
\* or clear run between two steps of the traversal.
C18_YieldsOnlyMembers ==
    (lastOp.op = "next" /\ lastOp.err = "none")
        => lastOp.node \in Members(Cur)

\* ---------------------------------------------------------------- registry
\* The strings used as pattern names and as lookup keys.
NameStrings == {"a", "b"}

\* What a class body can leave in the class attribute `name`: nothing (the
\* inherited None), a value that is not a str, or a str, possibly empty.
NameAttrs ==
    {[kind |-> "none", s |-> ""], [kind |-> "other", s |-> ""],
     [kind |-> "str", s |-> ""]}
        \cup {[kind |-> "str", s |-> n] : n \in NameStrings}

Configs == 1 .. MaxConfig

\* A class object made by a class statement `class X(BasePattern)`: its
\* identity, its `name` attribute, and whether its body defines on_pivot.
ClassObject(id, nameAttr, impl) ==
    [cid |-> id, name |-> nameAttr, on_pivot |-> impl]

NoClass == ClassObject(0, [kind |-> "none", s |-> ""], FALSE)
NoInstance == [iid |-> 0, cls |-> NoClass, config |-> 0]

\* The registry's class-level state, as one record.
CurR == [register |-> _register, instances |-> _instances, ninst |-> ninst]

\* `d[k] = v` and `del d[k]` on a dict.
SetItem(d, k, v) == [x \in DOMAIN d \cup {k} |-> IF x = k THEN v ELSE d[x]]
DelItem(d, k) == [x \in DOMAIN d \ {k} |-> d[x]]

RResult(R, ret, err, msg) == [R |-> R, ret |-> ret, err |-> err, msg |-> msg]

\* register() that stores the class before it looks for a duplicate.
register_StoresFirst(R, subcls) ==
    LET name == subcls.name.s
    IN IF name \in DOMAIN R.register
       THEN RResult([R EXCEPT !.register = SetItem(R.register, name, subcls)],
                    NoInstance, "ValueError", "Duplicate name")
       ELSE RResult([R EXCEPT !.register = SetItem(R.register, name, subcls)],
                    NoInstance, "none", "")

\* Registry.register(subcls)
register(R, subcls) ==
    LET name == subcls.name.s
    IN IF name \in DOMAIN R.register
       THEN RResult(R, NoInstance, "ValueError", "Duplicate name")
       ELSE RResult([R EXCEPT !.register = SetItem(R.register, name, subcls)],
                    NoInstance, "none", "")

\* __init_subclass__() that registers the class and validates its name after.
__init_subclass___RegistersFirst(R, cls) ==
    LET r == register(R, cls)
    IN IF r.err # "none" THEN r
       ELSE IF cls.name.kind = "none"
       THEN RResult(r.R, NoInstance, "ValueError", "name must be set")
       ELSE IF cls.name.kind # "str" \/ cls.name.s = ""
       THEN RResult(r.R, NoInstance, "ValueError", "name must be a non-empty string")
       ELSE r

\* BasePattern.__init_subclass__(cls), run by the class statement.
__init_subclass__(R, cls) ==
    IF cls.name.kind = "none"
    THEN RResult(R, NoInstance, "ValueError", "name must be set")
    ELSE IF cls.name.kind # "str" \/ cls.name.s = ""
    THEN RResult(R, NoInstance, "ValueError", "name must be a non-empty string")
    ELSE register(R, cls)

\* get_instance() that caches a placeholder for a name it does not find.
get_instance_CachesMiss(R, name) ==
    IF name \in DOMAIN R.instances
    THEN RResult(R, R.instances[name], "none", "")
    ELSE RResult([R EXCEPT !.instances = SetItem(R.instances, name, NoInstance)],
                 NoInstance, "KeyError", "")

\* Registry.get_instance(name)
get_instance(R, name) ==
    IF name \in DOMAIN R.instances
    THEN RResult(R, R.instances[name], "none", "")
    ELSE RResult(R, NoInstance, "KeyError", "")

\* Registry.all(): the _register dict itself.
RegisterRef == "Registry._register"
NoRef == "none"
all(R) == RegisterRef

\* on_pivot is an abstractmethod of an ABC: a class that does not define it
\* can be created, and calling it to construct an instance raises TypeError.
CanInstantiate(cls) == cls.on_pivot

\* create() that caches a placeholder before it looks the class up.
create_CachesUnknown(R, name, kwargs) ==
    IF name \notin DOMAIN R.instances
    THEN IF name \notin DOMAIN R.register
         THEN RResult([R EXCEPT !.instances = SetItem(R.instances, name, NoInstance)],
                      NoInstance, "KeyError", "")
         ELSE IF ~CanInstantiate(R.register[name])
         THEN RResult(R, NoInstance, "TypeError", "abstract class")
         ELSE LET inst == [iid |-> R.ninst + 1, cls |-> R.register[name],
                           config |-> kwargs]
                  R1 == [R EXCEPT !.ninst = R.ninst + 1,
                                  !.instances = SetItem(R.instances, name, inst)]
              IN RResult(R1, R1.instances[name], "none", "")
    ELSE RResult(R, R.instances[name], "none", "")

\* create() without the test `name not in cls._instances`.
create_AlwaysConstructs(R, name, kwargs) ==
    IF name \notin DOMAIN R.register
    THEN RResult(R, NoInstance, "KeyError", "")
    ELSE IF ~CanInstantiate(R.register[name])
    THEN RResult(R, NoInstance, "TypeError", "abstract class")
    ELSE LET inst == [iid |-> R.ninst + 1, cls |-> R.register[name],
                      config |-> kwargs]
             R1 == [R EXCEPT !.ninst = R.ninst + 1,
                             !.instances = SetItem(R.instances, name, inst)]
         IN RResult(R1, R1.instances[name], "none", "")

\* Registry.create(name, **kwargs)
create(R, name, kwargs) ==
    IF name \notin DOMAIN R.instances
    THEN IF name \notin DOMAIN R.register
         THEN RResult(R, NoInstance, "KeyError", "")
         ELSE IF ~CanInstantiate(R.register[name])
         THEN RResult(R, NoInstance, "TypeError", "abstract class")
         ELSE LET inst == [iid |-> R.ninst + 1, cls |-> R.register[name],
                           config |-> kwargs]
                  R1 == [R EXCEPT !.ninst = R.ninst + 1,
                                  !.instances = SetItem(R.instances, name, inst)]
              IN RResult(R1, R1.instances[name], "none", "")
    ELSE RResult(R, R.instances[name], "none", "")

CommitR(r, op, name, cls, cfg) ==
    /\ _register' = r.R.register
    /\ _instances' = r.R.instances
    /\ ninst' = r.R.ninst
    /\ lastCall' = [op |-> op, name |-> name, cls |-> cls, config |-> cfg,
                    ret |-> r.ret, err |-> r.err, msg |-> r.msg]
    /\ UNCHANGED <<listVars, it, th>>

\* A class statement `class X(BasePattern): name = ...`, with or without a
\* definition of on_pivot in its body.
Declare(nameAttr, impl) ==
    /\ ndecl < MaxDecls
    /\ ndecl' = ndecl + 1
    /\ LET cls == ClassObject(ndecl + 1, nameAttr, impl)
       IN CommitR(__init_subclass__(CurR, cls), "declare", nameAttr.s, cls, 0)
    /\ UNCHANGED view

CallCreate(name, kwargs) ==
    /\ CommitR(create(CurR, name, kwargs), "create", name, NoClass, kwargs)
    /\ UNCHANGED <<ndecl, view>>

CallGetInstance(name) ==
    /\ CommitR(get_instance(CurR, name), "get_instance", name, NoClass, 0)
    /\ UNCHANGED <<ndecl, view>>

CallAll ==
    /\ view' = all(CurR)
    /\ CommitR(RResult(CurR, NoInstance, "none", ""), "all", "", NoClass, 0)
    /\ UNCHANGED ndecl

\* The caller stores into, or deletes from, the mapping all() returned.
\* That mapping is the dict Registry._register itself.
ViewSetItem(k, cls) ==
    /\ view = RegisterRef
    /\ CommitR(RResult([CurR EXCEPT !.register = SetItem(_register, k, cls)],
                       NoInstance, "none", ""), "view_setitem", k, cls, 0)
    /\ UNCHANGED <<ndecl, view>>

ViewDelItem(k) ==
    /\ view = RegisterRef
    /\ k \in DOMAIN _register
    /\ CommitR(RResult([CurR EXCEPT !.register = DelItem(_register, k)],
                       NoInstance, "none", ""), "view_delitem", k, NoClass, 0)
    /\ UNCHANGED <<ndecl, view>>

InitRegistry ==
    /\ _register = << >>
    /\ _instances = << >>
    /\ ndecl = 0
    /\ ninst = 0
    /\ view = NoRef
    /\ lastCall = [op |-> "init", name |-> "", cls |-> NoClass, config |-> 0,
                   ret |-> NoInstance, err |-> "none", msg |-> ""]

InitIter == it = NoGenerator

\* ------------------------------------------------- create() by two threads
Threads == {"t1", "t2"}

IdleFrame ==
    [pc |-> "idle", name |-> "", kwargs |-> 0, made |-> NoInstance,
     ret |-> NoInstance, err |-> "none"]

\* The statements of create() as a thread runs them, one at a time.
\* Line 142: the test `name not in cls._instances`.
create_check(R, name) == name \notin DOMAIN R.instances

\* Line 143, right-hand side: cls._register[name](**kwargs).
create_construct(R, name, kwargs) ==
    IF name \notin DOMAIN R.register
    THEN RResult(R, NoInstance, "KeyError", "")
    ELSE IF ~CanInstantiate(R.register[name])
    THEN RResult(R, NoInstance, "TypeError", "abstract class")
    ELSE RResult([R EXCEPT !.ninst = R.ninst + 1],
                 [iid |-> R.ninst + 1, cls |-> R.register[name],
                  config |-> kwargs], "none", "")

\* The store of line 143 made conditional on the name being absent.
create_store_IfAbsent(R, name, inst) ==
    IF name \in DOMAIN R.instances THEN R
    ELSE [R EXCEPT !.instances = SetItem(R.instances, name, inst)]

\* Line 143, the store: cls._instances[name] = <the new instance>.
create_store(R, name, inst) ==
    [R EXCEPT !.instances = SetItem(R.instances, name, inst)]

\* Line 144: return cls._instances[name].
create_return(R, name) == R.instances[name]

ThreadStep(t, frame, R) ==
    /\ th' = [th EXCEPT ![t] = frame]
    /\ _register' = R.register
    /\ _instances' = R.instances
    /\ ninst' = R.ninst
    /\ UNCHANGED <<listVars, it, ndecl, view, lastCall>>

\* Thread t calls Registry.create(name, **kwargs).
T_Call(t, name, kwargs) ==
    /\ th[t].pc = "idle"
    /\ ThreadStep(t, [th[t] EXCEPT !.pc = "line142", !.name = name,
                                   !.kwargs = kwargs], CurR)

T_Check(t) ==
    /\ th[t].pc = "line142"
    /\ ThreadStep(t, [th[t] EXCEPT !.pc = IF create_check(CurR, th[t].name)
                                         THEN "line143" ELSE "line144"], CurR)

T_Construct(t) ==
    /\ th[t].pc = "line143"
    /\ LET r == create_construct(CurR, th[t].name, th[t].kwargs)
       IN ThreadStep(t, [th[t] EXCEPT
                            !.pc = IF r.err = "none" THEN "store" ELSE "done",
                            !.made = r.ret, !.err = r.err], r.R)

T_Store(t) ==
    /\ th[t].pc = "store"
    /\ ThreadStep(t, [th[t] EXCEPT !.pc = "line144"],
                  create_store(CurR, th[t].name, th[t].made))

T_Return(t) ==
    /\ th[t].pc = "line144"
    /\ ThreadStep(t, [th[t] EXCEPT !.pc = "done",
                                   !.ret = create_return(CurR, th[t].name)], CurR)

\* The load phase: class statements run before any thread calls create().
LoadPhase(nameAttr, impl) ==
    /\ \A t \in Threads : th[t].pc = "idle"
    /\ Declare(nameAttr, impl)

InitRace == th = [t \in Threads |-> IdleFrame]

\* Two threads that each call create() once, after the load phase; a thread
\* can be preempted between any two statements.
NextRace ==
    \/ \E a \in NameAttrs, impl \in BOOLEAN : LoadPhase(a, impl)
    \/ \E t \in Threads, n \in NameStrings, c \in Configs : T_Call(t, n, c)
    \/ \E t \in Threads : T_Check(t)
    \/ \E t \in Threads : T_Construct(t)
    \/ \E t \in Threads : T_Store(t)
    \/ \E t \in Threads : T_Return(t)

Init == InitList /\ InitRegistry /\ InitIter /\ InitRace

\* The registry used through its own operations.
NextRegistry ==
    \/ \E a \in NameAttrs, impl \in BOOLEAN : Declare(a, impl)
    \/ \E n \in NameStrings, c \in Configs : CallCreate(n, c)
    \/ \E n \in NameStrings : CallGetInstance(n)
    \/ CallAll

\* The registry with a caller that also writes to the mapping all() returned.
NextView ==
    \/ NextRegistry
    \/ \E k \in NameStrings : ViewSetItem(k, ClassObject(0, [kind |-> "str", s |-> k], TRUE))
    \/ \E k \in NameStrings : ViewDelItem(k)

SpecList == Init /\ [][NextList]_vars

\* -------------------------------------------------- registry properties
InstanceIds(R) == {R.instances[n].iid : n \in DOMAIN R.instances}

\* What create(name, config) does for a name of _register: the first call
\* constructs an instance of _register[name] from config and caches it, a
\* later call returns the cached instance and constructs nothing.
CreateCaches ==
    LET n == lastCall'.name
        r == lastCall'.ret
    IN IF n \notin DOMAIN _instances
       THEN /\ lastCall'.err = "none"
            /\ r.cls = _register[n]
            /\ r.config = lastCall'.config
            /\ r.iid \notin InstanceIds(CurR)
            /\ _instances' = SetItem(_instances, n, r)
            /\ ninst' = ninst + 1
       ELSE /\ lastCall'.err = "none"
            /\ r = _instances[n]
            /\ _instances' = _instances
            /\ ninst' = ninst

\* C4: for a registered name the first create(name, config) constructs an
\* instance from classMap[name] with that config and caches it; every later
\* create(name, config') returns the identical cached instance, constructs
\* nothing, and the instance keeps the configuration of the first call.
C4_CreateIsSingleton ==
    [][(lastCall'.op = "create" /\ lastCall'.name \in DOMAIN _register)
            => CreateCaches]_vars

\* The same, for the registered names whose class defines on_pivot.
CreateIsSingletonOfConcrete ==
    [][(/\ lastCall'.op = "create"
        /\ lastCall'.name \in DOMAIN _register
        /\ CanInstantiate(_register[lastCall'.name])) => CreateCaches]_vars

\* C5: declaring a variant whose name is already a key of classMap fails
\* with ValueError (duplicate) and leaves the registry unmodified: classMap
\* maps the name to the first variant, no other key changes, instanceMap is
\* unchanged.
C5_DuplicateRejected ==
    [][(/\ lastCall'.op = "declare"
        /\ lastCall'.cls.name.kind = "str"
        /\ lastCall'.name \in DOMAIN _register) =>
            /\ lastCall'.err = "ValueError"
            /\ lastCall'.msg = "Duplicate name"
            /\ _register' = _register
            /\ _register'[lastCall'.name].cid # lastCall'.cls.cid
            /\ _instances' = _instances
      ]_vars

\* A second class with the name "a" has just been rejected.
C5_Witness ==
    /\ lastCall.op = "declare"
    /\ lastCall.msg = "Duplicate name"
    /\ lastCall.name = "a"
    /\ "a" \in DOMAIN _register
    /\ _register["a"].cid < lastCall.cls.cid

\* C6: adding, replacing or deleting entries in the value all() returned
\* does not change what the registry holds.
C6_ViewIsolated ==
    [][lastCall'.op \in {"view_setitem", "view_delitem"}
            => _register' = _register]_vars

\* C7: a variant that does not implement on_pivot fails before it can be
\* declared: its class statement raises (AbstractContractViolation when its
\* name is valid and new), it is not registered, and no class of classMap
\* lacks on_pivot.
C7_AbstractNeverDeclared ==
    /\ (lastCall.op = "declare" /\ ~lastCall.cls.on_pivot) =>
            /\ lastCall.err # "none"
            /\ \A n \in DOMAIN _register : _register[n].cid # lastCall.cls.cid
    /\ \A n \in DOMAIN _register : _register[n].on_pivot

\* C8: declaring a variant whose name is missing, not a string or the empty
\* string fails with ValueError from the validation of __init_subclass__,
\* before Registry.register is reached, and never mutates classMap.
C8_InvalidNameRejected ==
    [][(/\ lastCall'.op = "declare"
        /\ \/ lastCall'.cls.name.kind # "str"
           \/ lastCall'.cls.name.s = "") =>
            /\ lastCall'.err = "ValueError"
            /\ lastCall'.msg \in {"name must be set",
                                  "name must be a non-empty string"}
            /\ lastCall'.msg = "name must be set"
                    <=> lastCall'.cls.name.kind = "none"
            /\ _register' = _register
            /\ _instances' = _instances
      ]_vars

\* A class whose name is not a string has just been rejected by a registry
\* that already holds a class.
C8_Witness ==
    /\ lastCall.op = "declare"
    /\ lastCall.cls.name.kind = "other"
    /\ lastCall.err = "ValueError"
    /\ DOMAIN _register # {}

\* C9: create(name) fails with KeyError when name is absent from classMap,
\* get_instance(name) fails with KeyError when no instance has been created
\* for name, registered or not; after either failure classMap and
\* instanceMap are unchanged.
C9_UnknownNameNotFound ==
    [][/\ (lastCall'.op = "create" /\ lastCall'.name \notin DOMAIN _register) =>
            /\ lastCall'.err = "KeyError"
            /\ _register' = _register
            /\ _instances' = _instances
       /\ (lastCall'.op = "get_instance"
                /\ lastCall'.name \notin DOMAIN _instances) =>
            /\ lastCall'.err = "KeyError"
            /\ _register' = _register
            /\ _instances' = _instances
      ]_vars

\* get_instance("a") has just failed although "a" is registered, and an
\* instance of another name exists.
C9_Witness ==
    /\ lastCall.op = "get_instance"
    /\ lastCall.name = "a"
    /\ lastCall.err = "KeyError"
    /\ "a" \in DOMAIN _register
    /\ "a" \notin DOMAIN _instances
    /\ DOMAIN _instances # {}

\* C16: in every reachable registry state, after any sequence of
\* declarations (successful or failing), create and get_instance calls, every
\* key of instanceMap is a key of classMap.
C16_InstancesAreRegistered ==
    DOMAIN _instances \subseteq DOMAIN _register

\* An instance is cached, and failing declarations and failing lookups have
\* happened since.
C16_Witness ==
    /\ lastCall.op = "get_instance"
    /\ lastCall.err = "KeyError"
    /\ DOMAIN _instances = {"a"}
    /\ DOMAIN _register = {"a", "b"}
    /\ ndecl = 3

\* C17: each name moves only forward through unregistered, registered and
\* instantiated: a key once in classMap stays mapped to the same variant, a
\* key once in instanceMap stays mapped to the same instance, and no name is
\* instantiated without being registered first.
C17_NamesOnlyAdvance ==
    [][/\ \A n \in DOMAIN _register :
              n \in DOMAIN _register' /\ _register'[n] = _register[n]
       /\ \A n \in DOMAIN _instances :
              n \in DOMAIN _instances' /\ _instances'[n] = _instances[n]
       /\ \A n \in DOMAIN _instances' : n \in DOMAIN _register
      ]_vars

\* create("a", ...) has just returned the instance cached by an earlier call
\* with another configuration, while "b" is registered and not instantiated.
C17_Witness ==
    /\ lastCall.op = "create"
    /\ lastCall.name = "a"
    /\ lastCall.err = "none"
    /\ lastCall.ret = _instances["a"]
    /\ lastCall.ret.config # lastCall.config
    /\ "b" \in DOMAIN _register
    /\ "b" \notin DOMAIN _instances

\* C19: create() is a check-and-act race.  The absence check and the
\* insertion into instanceMap are separate steps: a thread that passed the
\* check constructs and stores whatever the map holds by then, so the cached
\* entry of another thread is overwritten; two threads that both pass the
\* check for one name construct two instances.
C19_CheckThenActRace ==
    [][\A t \in Threads :
        /\ (th[t].pc = "line142" /\ th'[t].pc = "line143") =>
                /\ th[t].name \notin DOMAIN _instances
                /\ _instances' = _instances
        /\ (th[t].pc = "line143" /\ th'[t].pc = "store") =>
                /\ th'[t].made.iid = ninst + 1
                /\ ninst' = ninst + 1
                /\ _instances' = _instances
        /\ (th[t].pc = "store" /\ th'[t].pc = "line144") =>
                /\ th[t].name \in DOMAIN _instances'
                /\ _instances'[th[t].name] = th[t].made
      ]_vars

\* Both threads called create("a", ...), both passed the check, two
\* instances were constructed, the entry cached first was overwritten and
\* the two callers hold different instances.
C19_Witness ==
    /\ \A t \in Threads :
           th[t].pc = "done" /\ th[t].err = "none" /\ th[t].name = "a"
    /\ th["t1"].made.iid # 0
    /\ th["t2"].made.iid # 0
    /\ th["t1"].made # th["t2"].made
    /\ th["t1"].ret = th["t1"].made
    /\ th["t2"].ret = th["t2"].made
    /\ _instances["a"] = th["t2"].made
    /\ ninst = 2

SpecRace == Init /\ [][NextRace]_vars
SpecIter == Init /\ [][NextIter]_vars
SpecStale == Init /\ [][NextStale]_vars
SpecRegistry == Init /\ [][NextRegistry]_vars
SpecView == Init /\ [][NextView]_vars

=============================================================================
